---- MODULE Spec2Model ----
(***************************************************************************)
(* Model of the Vigenere cipher engine of src/vigenere.cpp.                *)
(*                                                                         *)
(* A character is its ASCII code, a std::string a sequence of codes.  The  *)
(* engine's only field is `key`.  Every member function is one action; the *)
(* arguments and the returned value of the last call are kept in op, msg,  *)
(* encryptedMsg, result, verdict and status so that properties of a call   *)
(* are state predicates.  keyArg and origin are history variables.         *)
(***************************************************************************)
EXTENDS Integers, Sequences, FiniteSets

VARIABLES
    key,            \* Vigenere::key
    keyArg,         \* history: argument of the constructor / of the last setKey
    op,             \* the member function called last
    msg,            \* its msg / decryptedMessage argument
    encryptedMsg,   \* isEncrypted's first argument
    result,         \* the std::string returned by encrypt / decrypt
    verdict,        \* the bool returned by isEncrypted
    status,         \* "ok": the call returned; "fault": it trapped
    replaced,       \* history: setKey has been called
    origin          \* history: <<m>> when the arguments of this call are taken
                    \* from the encrypt(m) call that immediately precedes it

vars == <<key, keyArg, op, msg, encryptedMsg, result, verdict, status, replaced, origin>>

----------------------------------------------------------------------------
(* Program constants *)

CharA == 65
AlphabetSize == 26

(* Bounds of the model *)

MaxMsgLen == 2
MaxKeyLen == 2

----------------------------------------------------------------------------
(* Inputs *)

RECURSIVE StringsUpTo(_, _)
StringsUpTo(chars, n) ==
    IF n = 0 THEN {<<>>}
    ELSE LET shorter == StringsUpTo(chars, n - 1)
         IN  shorter \cup {Append(s, c) : s \in {t \in shorter : Len(t) = n - 1}, c \in chars}

\* 'Z', 'a', ' ' : an uppercase letter that wraps, a lowercase letter, a non-letter
MsgChars == {90, 97, 32}
\* 'A', 'B'
KeyChars == {65, 66}
\* 'Z'
CipherChars == {90}

HELLO == <<72, 69, 76, 76, 79>>
RIJVS == <<82, 73, 74, 86, 83>>
HI_THERE == <<72, 73, 32, 84, 72, 69, 82, 69>>
ABC == <<65, 66, 67>>
KEY == <<75, 69, 89>>

\* the scenarios of the specification, next to the bounded strings
Msgs == StringsUpTo(MsgChars, MaxMsgLen) \cup {HELLO, RIJVS, HI_THERE, ABC}
\* "a" and "Ba": keys that are not uppercase, which the code does not reject
Keys == StringsUpTo(KeyChars, MaxKeyLen) \cup {KEY, <<97>>, <<66, 97>>}
CipherTexts == StringsUpTo(CipherChars, MaxMsgLen) \cup {RIJVS}

----------------------------------------------------------------------------
(* The code *)

\* std::isprint / std::isupper in place of std::isalpha
isprint(c) == c >= 32 /\ c <= 126
isupper(c) == c >= 65 /\ c <= 90

\* std::isalpha in the "C" locale, for an ASCII character
isalpha(c) == (c >= 65 /\ c <= 90) \/ (c >= 97 /\ c <= 122)

\* the % of C++ on int: the remainder of the division that truncates toward zero
CRem(a, b) == IF a >= 0 THEN a % b ELSE 0 - ((0 - a) % b)

\* the shifts without their wrap-around
shiftForwardNoWrap(ch, n) == CharA + (ch - CharA + n)
shiftBackwardNoWrap(ch, n) == CharA + CRem(ch - CharA - n, AlphabetSize)

shiftForward(ch, n) == CharA + CRem(ch - CharA + n, AlphabetSize)

shiftBackward(ch, n) == CharA + CRem(ch - CharA - n + AlphabetSize, AlphabetSize)

\* the for loop of encrypt, from index i (0-based) with `encrypted` built so far
RECURSIVE encryptLoop(_, _, _, _)
encryptLoop(k, m, i, encrypted) ==
    IF i >= Len(m) THEN encrypted
    ELSE IF isalpha(m[i + 1])
         THEN LET shift == k[(i % Len(k)) + 1] - CharA
              IN  encryptLoop(k, m, i + 1, Append(encrypted, shiftForward(m[i + 1], shift)))
         ELSE encryptLoop(k, m, i + 1, Append(encrypted, m[i + 1]))

\* the for loop of decrypt
RECURSIVE decryptLoop(_, _, _, _)
decryptLoop(k, m, i, decrypted) ==
    IF i >= Len(m) THEN decrypted
    ELSE IF isalpha(m[i + 1])
         THEN LET shift == k[(i % Len(k)) + 1] - CharA
              IN  decryptLoop(k, m, i + 1, Append(decrypted, shiftBackward(m[i + 1], shift)))
         ELSE decryptLoop(k, m, i + 1, Append(decrypted, m[i + 1]))

\* i % keyLength with keyLength = 0 is evaluated: undefined behaviour
ModByZero(k, m) == Len(k) = 0 /\ \E p \in 1..Len(m) : isalpha(m[p])

\* What a build can produce once i % 0 is evaluated: a trap, or (where integer
\* division does not trap) a string with some garbage where a letter stood.
\* '\0' and '?' stand for the garbage.
GarbageChars == {0, 63}

UBOutcomes(m) ==
    {[status |-> "fault", value |-> <<>>]} \cup
    {[status |-> "ok",
      value |-> [p \in 1..Len(m) |-> IF isalpha(m[p]) THEN g ELSE m[p]]] : g \in GarbageChars}

\* encrypt with a loop that starts at index 1
encryptFromOne(k, m) ==
    IF ModByZero(k, m) THEN UBOutcomes(m)
    ELSE {[status |-> "ok", value |-> encryptLoop(k, m, 1, <<>>)]}

encrypt(k, m) ==
    IF ModByZero(k, m) THEN UBOutcomes(m)
    ELSE {[status |-> "ok", value |-> encryptLoop(k, m, 0, <<>>)]}

decrypt(k, m) ==
    IF ModByZero(k, m) THEN UBOutcomes(m)
    ELSE {[status |-> "ok", value |-> decryptLoop(k, m, 0, <<>>)]}

\* isEncrypted comparing the lengths only
isEncryptedByLength(k, c, m) ==
    {[status |-> o.status, value |-> (o.status = "ok" /\ Len(c) = Len(o.value))] : o \in encrypt(k, m)}

\* encryptedMsg == encrypt(decryptedMessage)
isEncrypted(k, c, m) ==
    {[status |-> o.status, value |-> (o.status = "ok" /\ c = o.value)] : o \in encrypt(k, m)}

----------------------------------------------------------------------------
(* The state machine *)

Init ==
    /\ key \in Keys
    /\ keyArg = key
    /\ replaced = FALSE
    /\ op = "construct"
    /\ msg = <<>>
    /\ encryptedMsg = <<>>
    /\ result = <<>>
    /\ verdict = FALSE
    /\ status = "ok"
    /\ origin = <<>>

\* a trap ends the process: no call follows it
Alive == status = "ok"

\* setKey that assigns nothing to the field
SetKeyNoStore(newKey) ==
    /\ Alive
    /\ key' = key
    /\ keyArg' = newKey
    /\ replaced' = TRUE
    /\ op' = "setKey"
    /\ msg' = <<>>
    /\ encryptedMsg' = <<>>
    /\ result' = <<>>
    /\ verdict' = FALSE
    /\ status' = "ok"
    /\ origin' = <<>>

SetKey(newKey) ==
    /\ Alive
    /\ key' = newKey
    /\ keyArg' = newKey
    /\ replaced' = TRUE
    /\ op' = "setKey"
    /\ msg' = <<>>
    /\ encryptedMsg' = <<>>
    /\ result' = <<>>
    /\ verdict' = FALSE
    /\ status' = "ok"
    /\ origin' = <<>>

\* encrypt that first repeats the stored key up to the length of the message
EncryptExtendsKey(m) ==
    /\ Alive
    /\ \E o \in encrypt(key, m) :
          /\ result' = o.value
          /\ status' = o.status
    /\ op' = "encrypt"
    /\ msg' = m
    /\ encryptedMsg' = <<>>
    /\ verdict' = FALSE
    /\ origin' = <<>>
    /\ key' = IF Len(key) > 0 /\ Len(key) < Len(m) THEN key \o key ELSE key
    /\ UNCHANGED <<keyArg, replaced>>

Encrypt(m) ==
    /\ Alive
    /\ \E o \in encrypt(key, m) :
          /\ result' = o.value
          /\ status' = o.status
    /\ op' = "encrypt"
    /\ msg' = m
    /\ encryptedMsg' = <<>>
    /\ verdict' = FALSE
    /\ origin' = <<>>
    /\ UNCHANGED <<key, keyArg, replaced>>

\* decrypt(m); fromPrev: m is the string the preceding encrypt call returned
Decrypt(m, fromPrev) ==
    /\ Alive
    /\ fromPrev => (op = "encrypt" /\ status = "ok" /\ m = result)
    /\ \E o \in decrypt(key, m) :
          /\ result' = o.value
          /\ status' = o.status
    /\ op' = "decrypt"
    /\ msg' = m
    /\ encryptedMsg' = <<>>
    /\ verdict' = FALSE
    /\ origin' = IF fromPrev THEN <<msg>> ELSE <<>>
    /\ UNCHANGED <<key, keyArg, replaced>>

\* isEncrypted(c, m); fromPrev: c is what the preceding encrypt(m) call returned
IsEncrypted(c, m, fromPrev) ==
    /\ Alive
    /\ fromPrev => (op = "encrypt" /\ status = "ok" /\ c = result /\ m = msg)
    /\ \E o \in isEncrypted(key, c, m) :
          /\ verdict' = o.value
          /\ status' = o.status
    /\ op' = "isEncrypted"
    /\ msg' = m
    /\ encryptedMsg' = c
    /\ result' = <<>>
    /\ origin' = IF fromPrev THEN <<msg>> ELSE <<>>
    /\ UNCHANGED <<key, keyArg, replaced>>

Next ==
    \/ \E newKey \in Keys : SetKey(newKey)
    \/ \E m \in Msgs : Encrypt(m)
    \/ \E m \in Msgs : Decrypt(m, FALSE)
    \/ Decrypt(result, TRUE)
    \/ \E c \in CipherTexts, m \in Msgs : IsEncrypted(c, m, FALSE)
    \/ IsEncrypted(result, msg, TRUE)

Spec == Init /\ [][Next]_vars

----------------------------------------------------------------------------
(* Vocabulary of the properties *)

IsUpper(c) == c \in 65..90
IsLower(c) == c \in 97..122
IsLetter(c) == IsUpper(c) \/ IsLower(c)

\* a non-empty key of uppercase letters
UpperKey(k) == Len(k) > 0 /\ \A p \in 1..Len(k) : IsUpper(k[p])
\* a text whose letters are all uppercase
UpperText(m) == \A p \in 1..Len(m) : IsLetter(m[p]) => IsUpper(m[p])
\* a text of uppercase letters only
AllUpper(m) == \A p \in 1..Len(m) : IsUpper(m[p])

Returned(o) == op = o /\ status = "ok"
Ciphered == (op = "encrypt" \/ op = "decrypt") /\ status = "ok"

\* the classic Vigenere characters, with the mathematical modulus
Enc(c, kc) == 65 + ((c - 65 + (kc - 65)) % 26)
Dec(c, kc) == 65 + ((c - 65 - (kc - 65) + 26) % 26)

----------------------------------------------------------------------------
(* The properties *)

\* C1: round trip.  With a non-empty uppercase key and a message whose letters
\* are all uppercase, decrypt applied to what encrypt returned, the key not
\* replaced in between, returns the message.
C1_RoundTrip ==
    (Returned("decrypt") /\ origin # <<>> /\ UpperKey(key) /\ UpperText(origin[1]))
        => result = origin[1]

C1_Witness ==
    /\ Returned("decrypt")
    /\ origin = << <<32, 90>> >>
    /\ key = <<65, 66>>
    /\ msg = <<32, 65>>
    /\ result = <<32, 90>>

\* C2: key cursor.  The key character used for a letter of the message is
\* key[j mod keyLength], j the number of letters that precede it, so that
\* non-letters do not consume a key position.
C2_KeyCursor ==
    (Ciphered /\ UpperKey(key)) =>
        /\ Len(result) = Len(msg)
        /\ \A p \in 1..Len(msg) :
              IsLetter(msg[p]) =>
                 LET j == Cardinality({q \in 1..(p - 1) : IsLetter(msg[q])})
                     kc == key[(j % Len(key)) + 1]
                 IN  result[p] = IF op = "encrypt" THEN shiftForward(msg[p], kc - CharA)
                                                  ELSE shiftBackward(msg[p], kc - CharA)

\* C3: classic Vigenere on uppercase text.  With a non-empty uppercase key and a
\* message of uppercase letters only, character i of encrypt's result is
\* 'A' + ((M[i] - 'A' + key[i mod keyLength] - 'A') mod 26) and character i of
\* decrypt's result is 'A' + ((M[i] - 'A' - (key[i mod keyLength] - 'A') + 26) mod 26);
\* under "KEY", encrypt("HELLO") is "RIJVS" and decrypt("RIJVS") is "HELLO".
C3_ClassicVigenere ==
    /\ (Ciphered /\ UpperKey(key) /\ AllUpper(msg)) =>
          /\ Len(result) = Len(msg)
          /\ \A p \in 1..Len(msg) :
                LET kc == key[((p - 1) % Len(key)) + 1]
                IN  result[p] = IF op = "encrypt" THEN Enc(msg[p], kc) ELSE Dec(msg[p], kc)
    /\ (Returned("encrypt") /\ key = KEY /\ msg = HELLO) => result = RIJVS
    /\ (Returned("decrypt") /\ key = KEY /\ msg = RIJVS) => result = HELLO

C3_Witness == Returned("encrypt") /\ key = KEY /\ msg = HELLO /\ result = RIJVS

\* C4: passthrough.  With a non-empty key, every non-alphabetic character of the
\* input is at the same index with the same value in the result of encrypt and
\* of decrypt.
C4_Passthrough ==
    (Ciphered /\ Len(key) > 0) =>
        \A p \in 1..Len(msg) :
            ~IsLetter(msg[p]) => (p <= Len(result) /\ result[p] = msg[p])

C4_Witness ==
    /\ Returned("encrypt")
    /\ key = KEY
    /\ msg = HI_THERE
    /\ result[3] = 32
    /\ result[4] # 84

\* C5: isEncrypted.  Under the current (non-empty) key isEncrypted(C, M) is true
\* exactly when C equals encrypt(M): true for what encrypt(M) has just returned,
\* false for any other C; isEncrypted("RIJVS", "HELLO") is true under "KEY".
C5_IsEncrypted ==
    (Returned("isEncrypted") /\ Len(key) > 0) =>
        /\ verdict <=> (encryptedMsg = encryptLoop(key, msg, 0, <<>>))
        /\ origin # <<>> => verdict
        /\ (key = KEY /\ encryptedMsg = RIJVS /\ msg = HELLO) => verdict

C5_Witness ==
    /\ Returned("isEncrypted")
    /\ key = <<65, 66>>
    /\ msg = <<90, 90>>
    /\ encryptedMsg = <<90, 90>>
    /\ ~verdict

\* C6: empty key.  A call of encrypt, decrypt or isEncrypted while the key is
\* empty ends in a fault, whatever the message; it never returns normally.
C6_EmptyKeyFaults ==
    (Len(key) = 0 /\ op \in {"encrypt", "decrypt", "isEncrypted"}) => status = "fault"

\* C7: length preservation.  With a non-empty key the results of encrypt and of
\* decrypt are as long as the message; the empty message gives the empty result.
C7_LengthPreserved ==
    (Ciphered /\ Len(key) > 0) =>
        /\ Len(result) = Len(msg)
        /\ msg = <<>> => result = <<>>

C7_Witness ==
    /\ Returned("decrypt")
    /\ key = <<66>>
    /\ msg = <<97, 32>>
    /\ Len(result) = 2

\* C8: key replacement.  What encrypt, decrypt and isEncrypted return is decided
\* by their arguments and by the key of the most recent setKey (of the
\* constructor when there was none), not by earlier keys or calls; after
\* setKey("A") encrypt is the identity on uppercase text.
C8_KeyReplacement ==
    (status = "ok" /\ Len(keyArg) > 0) =>
        /\ op = "encrypt" => result = encryptLoop(keyArg, msg, 0, <<>>)
        /\ op = "decrypt" => result = decryptLoop(keyArg, msg, 0, <<>>)
        /\ op = "isEncrypted" => (verdict <=> encryptedMsg = encryptLoop(keyArg, msg, 0, <<>>))
        /\ (op = "encrypt" /\ keyArg = <<65>> /\ UpperText(msg)) => result = msg

C8_Witness ==
    /\ Returned("encrypt")
    /\ replaced
    /\ keyArg = <<65>>
    /\ msg = ABC
    /\ result = ABC

\* C9: case quirk.  With a non-empty uppercase key every letter of the input,
\* lowercase included, is shifted with the uppercase-relative formula by a
\* shift of the key, so its output character is an uppercase letter, and
\* decrypt(encrypt(.)) never gives back a lowercase letter.
C9_CaseQuirk ==
    /\ (Ciphered /\ UpperKey(key)) =>
          /\ Len(result) = Len(msg)
          /\ \A p \in 1..Len(msg) :
                IsLetter(msg[p]) =>
                    /\ IsUpper(result[p])
                    /\ \E n \in 1..Len(key) :
                          result[p] = IF op = "encrypt" THEN Enc(msg[p], key[n])
                                                       ELSE Dec(msg[p], key[n])
    /\ (Returned("decrypt") /\ UpperKey(key) /\ origin # <<>>) =>
          /\ Len(result) = Len(origin[1])
          /\ \A p \in 1..Len(origin[1]) : IsLower(origin[1][p]) => result[p] # origin[1][p]

C9_Witness ==
    /\ Returned("decrypt")
    /\ key = <<66>>
    /\ origin = << <<97, 90>> >>
    /\ IsUpper(result[1])
    /\ result[2] = 90

\* C10: frame of the key.  encrypt, decrypt and isEncrypted leave the stored key
\* as it is; the stored key is always the argument of the last setKey (of the
\* constructor when there was none), and only setKey changes it.
C10_KeyFrame ==
    /\ key = keyArg
    /\ [][/\ key' = keyArg'
          /\ key' # key => op' = "setKey"
          /\ op' \in {"encrypt", "decrypt", "isEncrypted"} => key' = key]_vars

C10_Witness ==
    /\ Returned("encrypt")
    /\ replaced
    /\ key = <<65, 66>>
    /\ keyArg = <<65, 66>>
    /\ msg = HI_THERE

====
